---- MODULE Spec2Model ----
(***************************************************************************)
(* Model of the two self-referential containers of src/pin:                *)
(*   SelfRef          (src/pin/固定结构体.rs)   String + *const str into it *)
(*   OptionalSelfRef  (src/pin/解除pin固定.rs)  Box<T> + Option<*const T>   *)
(* Memory is modelled explicitly: every allocation has an address, a raw   *)
(* pointer is an address (plus a length for *const str), and reading       *)
(* through a pointer whose target is not live yields an arbitrary value.   *)
(***************************************************************************)
EXTENDS Integers, Sequences, FiniteSets, TLC

\* ---------------------------------------------------------------- bounds
MaxLen == 2
MaxHeap == 3
MaxStack == 2

\* ------------------------------------------------------------- addresses
NullAddr == 0
DanglingAddr == 1
HeapAddrs == 2 .. (1 + MaxHeap)
StackAddrs == (2 + MaxHeap) .. (1 + MaxHeap + MaxStack)

Chars == {"a", "b"}
Texts == UNION {[1 .. n -> Chars] : n \in 0 .. MaxLen}
Values == {42, 99}

NoText == <<"?">>
NoString == [buf |-> NullAddr, len |-> 0]
NoPtr == [addr |-> NullAddr, len |-> 0]
NoSelfRef == [addr |-> NullAddr, data |-> NoString, ptr |-> NoPtr]
FreeCell == [kind |-> "free", bytes |-> <<>>]
RecCell == [kind |-> "rec", bytes |-> <<>>]
NoPrev == [text |-> NoText, buf |-> NullAddr]

VARIABLES pc, arg, local, ptrLocal, sr, heap, observed, addr0, prev,
          opc, inst, handle, oheap, oval, made, hist, oseen

svars == <<pc, arg, local, ptrLocal, sr, heap, observed, addr0, prev>>
ovars == <<opc, inst, handle, oheap, oval, made, hist, oseen>>
vars == <<pc, arg, local, ptrLocal, sr, heap, observed, addr0, prev,
          opc, inst, handle, oheap, oval, made, hist, oseen>>

\* ======================================================================
\*                          SelfRef  (固定结构体.rs)
\* ======================================================================

StrCell(s) == [kind |-> "str", bytes |-> s]

FreeAddrs(h) == {a \in HeapAddrs : h[a].kind = "free"}

Dealloc(h, a) == IF a \in HeapAddrs THEN [h EXCEPT ![a] = FreeCell] ELSE h

\* A to_string whose empty String carries a null buffer pointer.
to_string_null(s, h) ==
    IF Len(s) = 0
    THEN {<<[buf |-> NullAddr, len |-> 0], h>>}
    ELSE {<<[buf |-> a, len |-> Len(s)], [h EXCEPT ![a] = StrCell(s)]>> :
             a \in FreeAddrs(h)}

\* str::to_string: the set of <<String, heap>> outcomes.  An empty String
\* owns no allocation and its buffer pointer is the non-null dangling one.
to_string(s, h) ==
    IF Len(s) = 0
    THEN {<<[buf |-> DanglingAddr, len |-> 0], h>>}
    ELSE {<<[buf |-> a, len |-> Len(s)], [h EXCEPT ![a] = StrCell(s)]>> :
             a \in FreeAddrs(h)}

\* The frame slot of the locals of SelfRef::new.
LocalAddr == 2 + MaxHeap

\* A pointer to the String value itself (the local) instead of its buffer.
StrPtrOfLocal(d) == [addr |-> LocalAddr, len |-> d.len]

\* `&data as &str as *const str`: address and length of the String's buffer.
StrPtr(d) == [addr |-> d.buf, len |-> d.len]

\* The bytes behind a *const str: those of the live buffer it points at;
\* anything at all when the target is not a live buffer of that length.
Deref(p, h) ==
    IF p.len = 0 /\ p.addr # NullAddr
    THEN {<<>>}
    ELSE IF p.addr \in HeapAddrs /\ h[p.addr].kind = "str"
                                 /\ Len(h[p.addr].bytes) >= p.len
         THEN {SubSeq(h[p.addr].bytes, 1, p.len)}
         ELSE Texts

\* The buffer's address instead of the record's.
get_struct_addr_buf(r) == r.data.buf

\* SelfRef::get_struct_addr
get_struct_addr(r) == r.addr

\* SelfRef::new, line 13
new_data ==
    /\ pc = "start"
    /\ \E s \in Texts : \E o \in to_string(s, heap) :
          /\ arg' = s
          /\ local' = o[1]
          /\ heap' = o[2]
    /\ pc' = "new_data"
    /\ UNCHANGED <<ptrLocal, sr, observed, addr0, prev>>
    /\ UNCHANGED ovars

\* SelfRef::new, line 14
new_ptr ==
    /\ pc = "new_data"
    /\ ptrLocal' = StrPtr(local)
    /\ pc' = "new_ptr"
    /\ UNCHANGED <<arg, local, sr, heap, observed, addr0, prev>>
    /\ UNCHANGED ovars

\* SelfRef::new, lines 16-20: the String and the pointer move into the
\* struct, which still lives in new's stack frame.
new_struct ==
    /\ pc = "new_ptr"
    /\ sr' = [addr |-> LocalAddr, data |-> local, ptr |-> ptrLocal]
    /\ local' = NoString
    /\ ptrLocal' = NoPtr
    /\ pc' = "new_struct"
    /\ UNCHANGED <<arg, heap, observed, addr0, prev>>
    /\ UNCHANGED ovars

\* SelfRef::new, line 22: Box::pin moves the struct to a fresh allocation
\* and returns the handle.
new_pin ==
    /\ pc = "new_struct"
    /\ \E a \in FreeAddrs(heap) :
          /\ heap' = [heap EXCEPT ![a] = RecCell]
          /\ sr' = [sr EXCEPT !.addr = a]
    /\ addr0' = get_struct_addr(sr')
    /\ pc' = "idle"
    /\ UNCHANGED <<arg, local, ptrLocal, observed, prev>>
    /\ UNCHANGED ovars

\* SelfRef::get_ref, lines 25-30.  It borrows the record, so it can only
\* run between two complete calls of update_data.
get_ref ==
    /\ pc = "idle"
    /\ IF sr.ptr.addr = NullAddr
       THEN /\ pc' = "panicked"
            /\ UNCHANGED observed
       ELSE /\ observed' \in Deref(sr.ptr, heap)
            /\ pc' = pc
    /\ UNCHANGED <<arg, local, ptrLocal, sr, heap, addr0, prev>>
    /\ UNCHANGED ovars

\* SelfRef::update_data, lines 33-34: the new String is built first, then
\* the assignment drops the old one.
update_data_assign ==
    /\ pc = "idle"
    /\ \E s \in Texts : \E o \in to_string(s, heap) :
          /\ arg' = s
          /\ sr' = [sr EXCEPT !.data = o[1]]
          /\ heap' = Dealloc(o[2], sr.data.buf)
    /\ prev' = [text |-> arg, buf |-> sr.data.buf]
    /\ observed' = NoText
    /\ pc' = "upd"
    /\ UNCHANGED <<local, ptrLocal, addr0>>
    /\ UNCHANGED ovars

\* A variant of line 35 that leaves the pointer as it was.
update_data_ptr_stale ==
    /\ pc = "upd"
    /\ pc' = "idle"
    /\ UNCHANGED <<arg, local, ptrLocal, sr, heap, observed, addr0, prev>>
    /\ UNCHANGED ovars

\* SelfRef::update_data, line 35
update_data_ptr ==
    /\ pc = "upd"
    /\ sr' = [sr EXCEPT !.ptr = StrPtr(sr.data)]
    /\ pc' = "idle"
    /\ UNCHANGED <<arg, local, ptrLocal, heap, observed, addr0, prev>>
    /\ UNCHANGED ovars

\* End of main: the handle is dropped, freeing the record and its buffer.
drop_handle ==
    /\ pc = "idle"
    /\ heap' = Dealloc(Dealloc(heap, sr.data.buf), sr.addr)
    /\ sr' = NoSelfRef
    /\ observed' = NoText
    /\ arg' = NoText
    /\ addr0' = NullAddr
    /\ prev' = NoPrev
    /\ pc' = "start"
    /\ UNCHANGED <<local, ptrLocal>>
    /\ UNCHANGED ovars

SInit ==
    /\ pc = "start"
    /\ arg = NoText
    /\ local = NoString
    /\ ptrLocal = NoPtr
    /\ sr = NoSelfRef
    /\ heap = [a \in HeapAddrs |-> FreeCell]
    /\ observed = NoText
    /\ addr0 = NullAddr
    /\ prev = NoPrev

SelfRefNext ==
    \/ new_data
    \/ new_ptr
    \/ new_struct
    \/ new_pin
    \/ get_ref
    \/ update_data_assign
    \/ update_data_ptr
    \/ drop_handle

\* ======================================================================
\*                      OptionalSelfRef  (解除pin固定.rs)
\* ======================================================================

None == [some |-> FALSE, ptr |-> NullAddr]
Some(a) == [some |-> TRUE, ptr |-> a]
NoInst == [loc |-> NullAddr, data |-> NullAddr, self_ref |-> None]
OFree == [kind |-> "free", val |-> 0]
DataCell(v) == [kind |-> "data", val |-> v]
InstCell == [kind |-> "inst", val |-> 0]
NoSeen == [some |-> FALSE, val |-> -1]
SeenNone == [some |-> FALSE, val |-> 0]
SeenSome(v) == [some |-> TRUE, val |-> v]

OFreeAddrs(h) == {a \in HeapAddrs : h[a].kind = "free"}
ODealloc(h, a) == IF a \in HeapAddrs THEN [h EXCEPT ![a] = OFree] ELSE h

\* Without line 28 the PhantomPinned field makes the type !Unpin.
NotUnpin == FALSE

\* Line 28: OptionalSelfRef<T> is Unpin for every T: 'static, whatever the
\* run-time value of self_ref.
IsUnpin == TRUE

\* The container's own (inline) address instead of the boxed data's.
SelfRefTargetInline(i) == i.loc

\* Line 57: `&*mut_ref.data as *const T`, the address of the boxed data.
SelfRefTarget(i) == i.data

\* OptionalSelfRef::get_ref, lines 65-72: the possible return values.
OptDeref(i, h) ==
    IF ~i.self_ref.some
    THEN {SeenNone}
    ELSE IF i.self_ref.ptr \in HeapAddrs /\ h[i.self_ref.ptr].kind = "data"
         THEN {SeenSome(h[i.self_ref.ptr].val)}
         ELSE {SeenSome(v) : v \in Values}

\* OptionalSelfRef::new_no_ref, lines 32-38
new_no_ref ==
    /\ opc = "start"
    /\ \E v \in Values : \E a \in OFreeAddrs(oheap) : \E l \in StackAddrs :
          /\ oval' = v
          /\ oheap' = [oheap EXCEPT ![a] = DataCell(v)]
          /\ inst' = [loc |-> l, data |-> a, self_ref |-> None]
    /\ handle' = "owned"
    /\ made' = "no_ref"
    /\ opc' = "live"
    /\ UNCHANGED <<hist, oseen>>
    /\ UNCHANGED svars

\* A construction that computes the pointer before the container is pinned.
new_with_ref_build_early ==
    /\ opc = "start"
    /\ \E v \in Values : \E a \in OFreeAddrs(oheap) :
          /\ oval' = v
          /\ oheap' = [oheap EXCEPT ![a] = DataCell(v)]
          /\ inst' = [loc |-> LocalAddr, data |-> a, self_ref |-> Some(a)]
    /\ handle' = "owned"
    /\ opc' = "nwr_built"
    /\ UNCHANGED <<made, hist, oseen>>
    /\ UNCHANGED svars

\* OptionalSelfRef::new_with_ref, lines 43-47
new_with_ref_build ==
    /\ opc = "start"
    /\ \E v \in Values : \E a \in OFreeAddrs(oheap) :
          /\ oval' = v
          /\ oheap' = [oheap EXCEPT ![a] = DataCell(v)]
          /\ inst' = [loc |-> LocalAddr, data |-> a, self_ref |-> None]
    /\ handle' = "owned"
    /\ opc' = "nwr_built"
    /\ UNCHANGED <<made, hist, oseen>>
    /\ UNCHANGED svars

\* OptionalSelfRef::new_with_ref, line 50
new_with_ref_pin ==
    /\ opc = "nwr_built"
    /\ \E b \in OFreeAddrs(oheap) :
          /\ oheap' = [oheap EXCEPT ![b] = InstCell]
          /\ inst' = [inst EXCEPT !.loc = b]
    /\ handle' = "pin_box"
    /\ opc' = "nwr_pinned"
    /\ UNCHANGED <<oval, made, hist, oseen>>
    /\ UNCHANGED svars

\* A construction that forgets to set the pointer.
new_with_ref_set_skip ==
    /\ opc = "nwr_pinned"
    /\ opc' = "nwr_set"
    /\ UNCHANGED <<inst, handle, oheap, oval, made, hist, oseen>>
    /\ UNCHANGED svars

\* OptionalSelfRef::new_with_ref, lines 53-58
new_with_ref_set ==
    /\ opc = "nwr_pinned"
    /\ inst' = [inst EXCEPT !.self_ref = Some(SelfRefTarget(inst))]
    /\ opc' = "nwr_set"
    /\ UNCHANGED <<handle, oheap, oval, made, hist, oseen>>
    /\ UNCHANGED svars

\* OptionalSelfRef::new_with_ref, line 61
new_with_ref_return ==
    /\ opc = "nwr_set"
    /\ made' = "with_ref"
    /\ opc' = "live"
    /\ UNCHANGED <<inst, handle, oheap, oval, hist, oseen>>
    /\ UNCHANGED svars

\* OptionalSelfRef::get_ref, lines 65-72 (main line 95)
opt_get_ref ==
    /\ opc = "live"
    /\ oseen' \in OptDeref(inst, oheap)
    /\ UNCHANGED <<opc, inst, handle, oheap, oval, made, hist>>
    /\ UNCHANGED svars

\* main line 82: Pin::new(&mut no_ref), which needs Self: Unpin
pin_new ==
    /\ opc = "live"
    /\ handle = "owned"
    /\ IsUnpin
    /\ handle' = "pin_mut"
    /\ hist' = hist \cup {"pin"}
    /\ UNCHANGED <<opc, inst, oheap, oval, made, oseen>>
    /\ UNCHANGED svars

\* An unlock that also clears the reference.
pin_into_inner_clearing ==
    /\ opc = "live"
    /\ handle \in {"pin_mut", "pin_box"}
    /\ IsUnpin
    /\ handle' = IF handle = "pin_mut" THEN "mut_ref" ELSE "box"
    /\ inst' = [inst EXCEPT !.self_ref = None]
    /\ hist' = hist \cup {"unpin"}
    /\ UNCHANGED <<opc, oheap, oval, made, oseen>>
    /\ UNCHANGED svars

\* main lines 86 and 98: Pin::into_inner, which needs Self: Unpin.  On a
\* Pin<&mut Self> it yields &mut Self, on a Pin<Box<Self>> a Box<Self>.
pin_into_inner ==
    /\ opc = "live"
    /\ handle \in {"pin_mut", "pin_box"}
    /\ IsUnpin
    /\ handle' = IF handle = "pin_mut" THEN "mut_ref" ELSE "box"
    /\ hist' = hist \cup {"unpin"}
    /\ UNCHANGED <<opc, inst, oheap, oval, made, oseen>>
    /\ UNCHANGED svars

\* main lines 88-89: the &mut obtained at line 86 is moved to a new binding
\* (the container stays where it is); the borrow ends after its last use.
move_ref ==
    /\ opc = "live"
    /\ handle = "mut_ref"
    /\ handle' = "owned"
    /\ hist' = hist \cup {"moveref"}
    /\ UNCHANGED <<opc, inst, oheap, oval, made, oseen>>
    /\ UNCHANGED svars

\* main line 101: `let moved = value`, a move of the container itself to
\* another place.  No view borrowed from the container survives the move.
move_value ==
    /\ opc = "live"
    /\ handle = "owned"
    /\ \E l \in StackAddrs \ {inst.loc} : inst' = [inst EXCEPT !.loc = l]
    /\ hist' = hist \cup {"move"}
    /\ oseen' = NoSeen
    /\ UNCHANGED <<opc, handle, oheap, oval, made>>
    /\ UNCHANGED svars

\* main line 105: unsafe Pin::into_inner_unchecked
into_inner_unchecked ==
    /\ opc = "live"
    /\ handle = "pin_box"
    /\ handle' = "box"
    /\ hist' = hist \cup {"unsafe"}
    /\ UNCHANGED <<opc, inst, oheap, oval, made, oseen>>
    /\ UNCHANGED svars

\* The Box<Self> of lines 98/105 is freely movable: `*boxed` moves the
\* container out of its allocation, which is then released.
unbox ==
    /\ opc = "live"
    /\ handle = "box"
    /\ \E l \in StackAddrs :
          /\ inst' = [inst EXCEPT !.loc = l]
          /\ oheap' = ODealloc(oheap, inst.loc)
    /\ handle' = "owned"
    /\ hist' = hist \cup {"move"}
    /\ oseen' = NoSeen
    /\ UNCHANGED <<opc, oval, made>>
    /\ UNCHANGED svars

\* End of scope (lines 107-108): the container and its boxed data are freed.
opt_drop ==
    /\ opc = "live"
    /\ handle \in {"owned", "pin_box", "box"}
    /\ oheap' = ODealloc(ODealloc(oheap, inst.data), inst.loc)
    /\ inst' = NoInst
    /\ handle' = "none"
    /\ oval' = 0
    /\ made' = "none"
    /\ hist' = {}
    /\ oseen' = NoSeen
    /\ opc' = "start"
    /\ UNCHANGED svars

OInit ==
    /\ opc = "start"
    /\ inst = NoInst
    /\ handle = "none"
    /\ oheap = [a \in HeapAddrs |-> OFree]
    /\ oval = 0
    /\ made = "none"
    /\ hist = {}
    /\ oseen = NoSeen

OptionalNext ==
    \/ new_no_ref
    \/ new_with_ref_build
    \/ new_with_ref_pin
    \/ new_with_ref_set
    \/ new_with_ref_return
    \/ opt_get_ref
    \/ pin_new
    \/ pin_into_inner
    \/ move_ref
    \/ move_value
    \/ into_inner_unchecked
    \/ unbox
    \/ opt_drop

Init == SInit /\ OInit

SelfRefSpec == Init /\ [][SelfRefNext]_vars

OptionalSpec == Init /\ [][OptionalNext]_vars

\* ======================================================================
\*                              Properties
\* ======================================================================

\* Invariant I1 of the record: the pointer is the address and length of the
\* current buffer, whose live storage holds the current text.
I1 ==
    /\ sr.ptr.addr = sr.data.buf
    /\ sr.ptr.len = sr.data.len
    /\ sr.data.len = Len(arg)
    /\ sr.data.len > 0 => heap[sr.data.buf] = StrCell(arg)

\* C1: once new_with_ref has returned, no sequence of operations that avoids
\* Pin::into_inner_unchecked leaves the container outside a pinning handle
\* (in a Box, a plain binding or behind a &mut) while its self_ref is present
\* and points at its data.
LockPermanence ==
    (opc = "live" /\ made = "with_ref" /\ "unsafe" \notin hist)
        => ~(/\ handle \in {"box", "owned", "mut_ref"}
             /\ inst.self_ref.some
             /\ inst.self_ref.ptr = inst.data)

\* C2: after update_data(new_text) has returned, every value get_ref can
\* return, and the value it did return, is exactly new_text.
ReferenceTracking ==
    (pc = "idle" /\ prev # NoPrev)
        => /\ Deref(sr.ptr, heap) = {arg}
           /\ observed # NoText => observed = arg

ReferenceTrackingWitness ==
    /\ pc = "idle"
    /\ prev # NoPrev
    /\ Len(prev.text) > 0
    /\ Len(arg) > Len(prev.text)
    /\ observed = arg

\* C3: whenever the handle is in the caller's hands, get_struct_addr returns
\* the value it returned right after new, whatever updates happened since.
AddressStability ==
    pc \in {"idle", "upd"} => get_struct_addr(sr) = addr0

AddressStabilityWitness ==
    /\ pc = "idle"
    /\ prev # NoPrev
    /\ prev.buf \in HeapAddrs
    /\ sr.data.buf \in HeapAddrs
    /\ sr.data.buf # prev.buf
    /\ get_struct_addr(sr) = addr0

\* C4: in every state in which get_ref can be called (after new, and between
\* two complete update_data calls), invariant I1 holds.
ObservableI1 ==
    (ENABLED get_ref) => I1

ObservableI1Witness ==
    /\ pc = "idle"
    /\ prev = NoPrev
    /\ Len(arg) > 0
    /\ observed = arg

\* C5: on the handle returned by new_with_ref(v), get_ref returns Some of a
\* view that equals v and is the container's own boxed data; never None.
ReferenceCorrectness ==
    (opc = "live" /\ made = "with_ref" /\ hist = {})
        => /\ OptDeref(inst, oheap) = {SeenSome(oval)}
           /\ inst.self_ref = Some(inst.data)
           /\ oheap[inst.data] = DataCell(oval)
           /\ oseen # NoSeen => oseen = SeenSome(oval)

ReferenceCorrectnessWitness ==
    /\ opc = "live"
    /\ made = "with_ref"
    /\ hist = {}
    /\ handle = "pin_box"
    /\ oseen = SeenSome(oval)

\* C6: a container made by new_no_ref has no self_ref; moving it, Pin::new
\* and Pin::into_inner are all permitted, and after any of them get_ref is
\* None and the data is unchanged.
MovabilityGating ==
    (opc = "live" /\ made = "no_ref")
        => /\ ~inst.self_ref.some
           /\ OptDeref(inst, oheap) = {SeenNone}
           /\ oseen \in {NoSeen, SeenNone}
           /\ oheap[inst.data] = DataCell(oval)
           /\ handle = "owned" => (ENABLED pin_new) /\ (ENABLED move_value)
           /\ handle = "pin_mut" => ENABLED pin_into_inner

MovabilityGatingWitness ==
    /\ opc = "live"
    /\ made = "no_ref"
    /\ {"pin", "unpin", "move"} \subseteq hist
    /\ handle = "owned"
    /\ oseen = SeenNone

\* C7: the pointer of a record is never null, for the empty text too, so
\* the assertion of get_ref never fails.
GetRefNeverAborts ==
    /\ pc # "panicked"
    /\ pc \in {"idle", "upd"} => sr.ptr.addr # NullAddr

GetRefNeverAbortsWitness ==
    /\ pc = "idle"
    /\ prev # NoPrev
    /\ prev.text = <<>>
    /\ arg = <<>>
    /\ observed = <<>>

\* C8: new_with_ref builds the container without a self_ref, pins it, and
\* only then sets self_ref; self_ref is never present on an unpinned
\* container under construction, and is present when the caller gets it.
ConstructionOrdering ==
    /\ opc = "nwr_built" => (~inst.self_ref.some /\ handle = "owned")
    /\ opc = "nwr_pinned" => (~inst.self_ref.some /\ handle = "pin_box")
    /\ opc = "nwr_set" => /\ inst.self_ref = Some(inst.data)
                          /\ handle = "pin_box"
                          /\ inst.loc \in HeapAddrs
    /\ (opc = "live" /\ made = "with_ref") => inst.self_ref.some

ConstructionOrderingWitness ==
    /\ opc = "nwr_set"
    /\ handle = "pin_box"
    /\ inst.self_ref.some

\* C9: no step on an existing container changes whether self_ref is
\* present, and it is present exactly on containers made by new_with_ref.
PresenceFixed ==
    [][(opc = "live" /\ opc' = "live")
          => /\ inst'.self_ref.some = inst.self_ref.some
             /\ inst.self_ref.some <=> made = "with_ref"]_vars

PresenceFixedWitness ==
    /\ opc = "live"
    /\ made = "with_ref"
    /\ {"unsafe", "move"} \subseteq hist
    /\ handle = "owned"
    /\ inst.self_ref.some

\* C10: after the container has been moved to another address, self_ref
\* still is the address of its boxed data, which still holds the value given
\* at construction, and get_ref returns Some of that value.
RelocationKeepsReference ==
    (opc = "live" /\ made = "with_ref" /\ "move" \in hist)
        => /\ inst.self_ref = Some(inst.data)
           /\ oheap[inst.data] = DataCell(oval)
           /\ OptDeref(inst, oheap) = {SeenSome(oval)}
           /\ oseen # NoSeen => oseen = SeenSome(oval)

RelocationKeepsReferenceWitness ==
    /\ opc = "live"
    /\ made = "with_ref"
    /\ "unsafe" \in hist
    /\ "move" \in hist
    /\ inst.loc \in StackAddrs
    /\ oseen = SeenSome(oval)
====
